---- MODULE Spec2Model ----
(***************************************************************************)
(* Model of SuperquoteBot (superquote_checker.py): the supervised polling  *)
(* loop of run(), the active-set / history bookkeeping, the notifications  *)
(* it dispatches and the history file written by _save_history and read    *)
(* back by _load_history when the process is started again.                *)
(*                                                                         *)
(* A Python dict is modelled as a sequence of [k, v] entries, so that its  *)
(* insertion order is kept.  The values of active_superquotes are the very *)
(* same dict objects as the values of history (lines 101, 267-268), so the *)
(* active set is modelled by its ordered keys and ActiveEntry reads the    *)
(* shared object from history.                                             *)
(***************************************************************************)
EXTENDS Naturals, Sequences, FiniteSets, TLC

VARIABLES
    pc,                  \* position of the process in run() / "crashed" / "terminated"
    attempt,             \* run(): the local retry counter
    backoff,             \* run(): argument of the last asyncio.sleep(30 * attempt)
    now,                 \* datetime.now(), counted in polls
    containers,          \* run(): the containers of this poll not yet processed
    current_cycle_ids,   \* run(): ids appended so far in this cycle
    removed_ids,         \* run(): ids still to be removed in this cycle
    active_superquotes,  \* self.active_superquotes (ordered keys)
    history,             \* self.history
    history_file,        \* the file named by self.history_file
    sent,                \* notifications passed to _send_telegram in this cycle
    notified,            \* per id, the kind of the last notification ever sent
    polled,              \* the containers returned by the poll of this cycle
    active_at_poll,      \* keys of the active set when this cycle's poll returned
    prev_ids,            \* ids of the preceding cycle, when it completed and
                         \* this cycle directly follows it in the same process
    failures,            \* acquisition failures since the last completed cycle
    file_before_save,    \* the file as it was when the last _save_history began
    crashes,             \* number of process crashes so far
    telegram             \* per chat id, what a post to the Telegram API meets

vars == <<pc, attempt, backoff, now, containers, current_cycle_ids, removed_ids,
          active_superquotes, history, history_file, sent, notified, polled,
          active_at_poll, prev_ids, failures, file_before_save, crashes,
          telegram>>

(***************************************************************************)
(* Bounds of the model.                                                    *)
(***************************************************************************)
MaxPoll == 2        \* containers returned by one poll
MaxCycles == 2      \* polls over the whole behaviour
MaxFailures == 5    \* acquisition failures counted since the last completed cycle
MaxCrashes == 1     \* process crashes over the whole behaviour

Range(s) == { s[i] : i \in DOMAIN s }

(***************************************************************************)
(* Program constants.                                                      *)
(***************************************************************************)
Threshold == 5      \* while attempt < 5
BackoffBase == 30   \* asyncio.sleep(30 * attempt)
NA == "N/A"         \* sentinel of _extract_bet_info

\* self.telegram_chat_ids (line 66)
TelegramChatIds == <<"chat1", "chat2">>

\* what session.post can meet (lines 128-132): status 200, another status,
\* or an exception
PostOutcomes == {"200", "status", "exception"}

Delivering == [c \in Range(TelegramChatIds) |-> "200"]

(***************************************************************************)
(* The containers a poll can return.  boost is the outcome of the          *)
(* validation at line 244; the other fields are what _extract_bet_info     *)
(* reads from the container (a field it cannot read stays "N/A").          *)
(***************************************************************************)
Container(b, ma, mk, de, oo, on) ==
    [boost |-> b, sport |-> "Soccer", match |-> ma, market |-> mk,
     details |-> de, odds_old |-> oo, odds_new |-> on]

Candidates ==
    { Container(TRUE,  "A", "Winner", "Boost", "1,50", "1,80"),
      Container(TRUE,  "A", "Winner", "Boost", "1,50", "2,00"),
      Container(TRUE,  "B", "Winner", "Boost", "2,10", "2,50"),
      Container(TRUE,  "C", NA,       "Boost", "3,00", "3,50"),
      Container(TRUE,  NA,  "Winner", "Boost", "1,50", "1,80"),
      Container(FALSE, "B", "Winner", "Boost", "2,10", "2,50") }

RECURSIVE SeqsUpTo(_, _)
SeqsUpTo(S, n) ==
    IF n = 0 THEN { <<>> }
    ELSE LET shorter == SeqsUpTo(S, n - 1)
         IN  shorter \cup { Append(s, x) : s \in { t \in shorter : Len(t) = n - 1 }, x \in S }

Polls == SeqsUpTo(Candidates, MaxPoll)

(***************************************************************************)
(* _extract_bet_info and _generate_id.                                     *)
(***************************************************************************)
ExtractBetInfo(container, t) ==
    [sport |-> container.sport, details |-> container.details,
     match |-> container.match, market |-> container.market,
     odds_old |-> container.odds_old, odds_new |-> container.odds_new,
     timestamp |-> t]

\* an identity that also covers the boosted odds
GenerateIdWithOdds(info) ==
    info.match \o "|" \o info.market \o "|" \o info.details \o "|" \o info.odds_new

\* hashlib.md5 is taken to be collision free: the digest is identified with
\* the string it is computed from.
GenerateId(info) ==
    info.match \o "|" \o info.market \o "|" \o info.details

\* a filter that only drops the containers that are no boost
SkippedNoBoost(container) == ~container.boost

\* lines 244-249: the containers that reach _generate_id
Skipped(container) ==
    \/ ~container.boost
    \/ container.match = NA
    \/ container.odds_new = NA

Ids == { GenerateId(c) : c \in Candidates }

RECURSIVE CycleIdsOf(_)
CycleIdsOf(cs) ==
    IF cs = <<>> THEN {}
    ELSE (IF Skipped(Head(cs)) THEN {} ELSE { GenerateId(Head(cs)) })
         \cup CycleIdsOf(Tail(cs))

(***************************************************************************)
(* Ordered dicts.                                                          *)
(***************************************************************************)
Keys(d) == { d[i].k : i \in DOMAIN d }

Get(d, key) == (CHOOSE i \in DOMAIN d : d[i].k = key) \* position of key
DictGet(d, key) == d[Get(d, key)].v

\* d[key] = value: an existing key keeps its position
DictSet(d, key, value) ==
    IF key \in Keys(d)
    THEN [d EXCEPT ![Get(d, key)] = [k |-> key, v |-> value]]
    ELSE Append(d, [k |-> key, v |-> value])

RECURSIVE Without(_, _)
Without(s, x) ==
    IF s = <<>> THEN <<>>
    ELSE IF Head(s) = x THEN Without(Tail(s), x)
    ELSE <<Head(s)>> \o Without(Tail(s), x)

RECURSIVE Filter(_, _)
Filter(s, keep) ==
    IF s = <<>> THEN <<>>
    ELSE IF Head(s) \in keep THEN <<Head(s)>> \o Filter(Tail(s), keep)
    ELSE Filter(Tail(s), keep)

\* the dict object behind an active key (shared with history)
ActiveEntry(key) == DictGet(history, key)

(***************************************************************************)
(* The history file: json.dump / json.load.                                *)
(***************************************************************************)
JsonString(s) == [t |-> "string", s |-> s]
JsonBool(b) == IF b THEN [t |-> "true"] ELSE [t |-> "false"]

\* a key that a dict (in memory) or an object (in the file) does not have
KeyMissing == "<no key>"
JsonAbsent == [t |-> "absent"]

DumpString(x) == IF x = KeyMissing THEN JsonAbsent ELSE JsonString(x)
LoadString(j) == IF j.t = "absent" THEN KeyMissing ELSE j.s

JsonDump(d) ==
    [i \in DOMAIN d |->
        [k |-> d[i].k,
         v |-> [sport |-> DumpString(d[i].v.sport),
                details |-> DumpString(d[i].v.details),
                match |-> DumpString(d[i].v.match),
                market |-> DumpString(d[i].v.market),
                odds_old |-> DumpString(d[i].v.odds_old),
                odds_new |-> DumpString(d[i].v.odds_new),
                timestamp |-> JsonString(d[i].v.timestamp),
                active |-> JsonBool(d[i].v.active)]]]

JsonLoad(doc) ==
    [i \in DOMAIN doc |->
        [k |-> doc[i].k,
         v |-> [sport |-> LoadString(doc[i].v.sport),
                details |-> LoadString(doc[i].v.details),
                match |-> LoadString(doc[i].v.match),
                market |-> LoadString(doc[i].v.market),
                odds_old |-> LoadString(doc[i].v.odds_old),
                odds_new |-> LoadString(doc[i].v.odds_new),
                timestamp |-> doc[i].v.timestamp.s,
                active |-> (doc[i].v.active.t = "true")]]]

Absent == [kind |-> "absent"]
Partial == [kind |-> "partial"]       \* truncated or partly written text
Document(doc) == [kind |-> "document", doc |-> doc]
\* well-formed JSON that is no object of objects: a list, a number, an
\* object whose values are no objects
OtherJson == [kind |-> "json"]
\* bytes that are no UTF-8 text
NotText == [kind |-> "binary"]

\* _load_history raises: json.load succeeds and data.items() or v.get fail
\* with AttributeError (line 101), or reading raises UnicodeDecodeError; the
\* except clause of line 104 catches json.JSONDecodeError only
LoadRaises(file) == file.kind \in {"json", "binary"}

\* _load_history: the value returned
LoadHistory(file) ==
    IF file.kind = "document" THEN JsonLoad(file.doc) ELSE <<>>

\* the comprehension of line 101, without its filter
AllKeysOf(d) == [i \in DOMAIN d |-> d[i].k]

\* line 101: the keys whose record has active is True, in file order
RECURSIVE ActiveKeysOf(_)
ActiveKeysOf(d) ==
    IF d = <<>> THEN <<>>
    ELSE (IF Head(d).v.active = TRUE THEN <<Head(d).k>> ELSE <<>>)
         \o ActiveKeysOf(Tail(d))

\* _load_history: self.active_superquotes after the call
LoadActive(file) ==
    IF file.kind = "document" THEN ActiveKeysOf(JsonLoad(file.doc)) ELSE <<>>

\* no completed cycle directly precedes
NoCycle == [completed |-> FALSE, ids |-> {}]

(***************************************************************************)
(* Initial state: the process has been constructed with no history file.   *)
(***************************************************************************)
Init ==
    /\ pc = "setup"
    /\ attempt = 0
    /\ backoff = 0
    /\ now = 0
    /\ containers = <<>>
    /\ current_cycle_ids = <<>>
    /\ removed_ids = <<>>
    /\ active_superquotes = <<>>
    /\ history = <<>>
    /\ history_file = Absent
    /\ sent = <<>>
    /\ notified = [id \in Ids |-> "none"]
    /\ polled = <<>>
    /\ active_at_poll = {}
    /\ prev_ids = NoCycle
    /\ failures = 0
    /\ file_before_save = Absent
    /\ crashes = 0
    /\ telegram = Delivering

(***************************************************************************)
(* run(): the except block (lines 299-308).  The locals of the aborted     *)
(* cycle are dropped, self.* is left as it is.                             *)
(***************************************************************************)
AttemptAfterError(a) == a + 1

BackoffSleep(a) == BackoffBase * a

ErrorHandler ==
    /\ failures < MaxFailures
    /\ attempt' = AttemptAfterError(attempt)
    /\ backoff' = BackoffSleep(attempt')
    /\ pc' = "backoff"
    /\ containers' = <<>>
    /\ current_cycle_ids' = <<>>
    /\ removed_ids' = <<>>
    /\ failures' = failures + 1
    /\ prev_ids' = NoCycle

HandleError ==
    /\ ErrorHandler
    /\ UNCHANGED <<telegram, now, active_superquotes, history, history_file, sent,
                   notified, polled, active_at_poll, file_before_save, crashes>>

\* line 217: the loop condition, read after the backoff sleep
Loops(a) == a < Threshold

Retry ==
    /\ pc = "backoff"
    /\ Loops(attempt)
    /\ pc' = "setup"
    /\ backoff' = 0
    /\ sent' = <<>>
    /\ polled' = <<>>
    /\ active_at_poll' = {}
    /\ UNCHANGED <<telegram, attempt, now, containers, current_cycle_ids, removed_ids,
                   active_superquotes, history, history_file, notified,
                   prev_ids, failures, file_before_save, crashes>>

Terminate ==
    /\ pc = "backoff"
    /\ ~Loops(attempt)
    /\ pc' = "terminated"
    /\ UNCHANGED <<telegram, attempt, backoff, now, containers, current_cycle_ids,
                   removed_ids, active_superquotes, history, history_file, sent,
                   notified, polled, active_at_poll, prev_ids, failures,
                   file_before_save, crashes>>

(***************************************************************************)
(* run(): browser setup (lines 219-221).                                   *)
(***************************************************************************)
SetupBrowser ==
    /\ pc = "setup"
    /\ attempt' = 0
    /\ pc' = "navigate"
    /\ UNCHANGED <<telegram, backoff, now, containers, current_cycle_ids, removed_ids,
                   active_superquotes, history, history_file, sent, notified,
                   polled, active_at_poll, prev_ids, failures,
                   file_before_save, crashes>>

SetupBrowserFails ==
    /\ pc = "setup"
    /\ HandleError

(***************************************************************************)
(* run(): navigation and container identification (lines 224-238).         *)
(***************************************************************************)
Navigate ==
    /\ pc = "navigate"
    /\ now < MaxCycles
    /\ \E p \in Polls :
          /\ containers' = p
          /\ polled' = p
    /\ now' = now + 1
    /\ current_cycle_ids' = <<>>
    /\ sent' = <<>>
    /\ active_at_poll' = Range(active_superquotes)
    /\ pc' = "process"
    /\ UNCHANGED <<telegram, attempt, backoff, removed_ids, active_superquotes, history,
                   history_file, notified, prev_ids, failures,
                   file_before_save, crashes>>

NavigateFails ==
    /\ pc = "navigate"
    /\ HandleError

(***************************************************************************)
(* run(): one iteration of the loop over the containers (lines 242-273).   *)
(***************************************************************************)
\* a membership test that takes every bet for a new one
IsNewAlways(bet_id, active) == TRUE

\* line 256
IsNew(bet_id, active) == bet_id \notin Range(active)

\* a removal that leaves the flag of the record as it is
MarkInactiveKept(bet) == bet

\* line 279
MarkInactive(bet) == [bet EXCEPT !.active = FALSE]

\* _send_telegram (lines 121-132): one post per chat id, in order; a status
\* other than 200 and an exception are logged and the loop goes on
TelegramPosts ==
    [i \in DOMAIN TelegramChatIds |->
        [chat_id |-> TelegramChatIds[i], outcome |-> telegram[TelegramChatIds[i]]]]

\* a loop that the first failed post ends
RECURSIVE UntilFailure(_)
UntilFailure(posts) ==
    IF posts = <<>> THEN <<>>
    ELSE IF Head(posts).outcome # "200" THEN <<Head(posts)>>
    ELSE <<Head(posts)>> \o UntilFailure(Tail(posts))

SendTelegramUntilFailure(message) ==
    [kind |-> message.kind, id |-> message.id, match |-> message.match,
     odds_old |-> message.odds_old, odds_new |-> message.odds_new,
     posts |-> UntilFailure(TelegramPosts)]

SendTelegram(message) ==
    [kind |-> message.kind, id |-> message.id, match |-> message.match,
     odds_old |-> message.odds_old, odds_new |-> message.odds_new,
     posts |-> TelegramPosts]

\* an update of an existing record that takes over the polled item
TouchOverwrite(record, data) == data

\* lines 272-273
Touch(record, data) ==
    [record EXCEPT !.timestamp = data.timestamp, !.active = TRUE]

Added(bet_id, data) ==
    [kind |-> "Added", id |-> bet_id, match |-> data.match,
     odds_old |-> data.odds_old, odds_new |-> data.odds_new]

Removed(bid, bet) ==
    [kind |-> "Removed", id |-> bid, match |-> bet.match,
     odds_old |-> bet.odds_old, odds_new |-> bet.odds_new]

ProcessContainer ==
    /\ pc = "process"
    /\ containers # <<>>
    /\ LET container == Head(containers)
           info == ExtractBetInfo(container, now)
           bet_id == GenerateId(info)
           data == [sport |-> info.sport, details |-> info.details,
                    match |-> info.match, market |-> info.market,
                    odds_old |-> info.odds_old, odds_new |-> info.odds_new,
                    timestamp |-> info.timestamp, active |-> TRUE]
       IN  /\ containers' = Tail(containers)
           /\ IF Skipped(container)
              THEN UNCHANGED <<current_cycle_ids, sent, notified,
                               active_superquotes, history>>
              ELSE /\ current_cycle_ids' = Append(current_cycle_ids, bet_id)
                   /\ IF IsNew(bet_id, active_superquotes)
                      THEN /\ sent' = Append(sent, SendTelegram(Added(bet_id, data)))
                           /\ notified' = [notified EXCEPT ![bet_id] = "Added"]
                           /\ active_superquotes' = Append(active_superquotes, bet_id)
                           /\ history' = DictSet(history, bet_id, data)
                      ELSE /\ history' = DictSet(history, bet_id,
                                  Touch(DictGet(history, bet_id), data))
                           /\ UNCHANGED <<sent, notified, active_superquotes>>
    /\ UNCHANGED <<telegram, pc, attempt, backoff, now, removed_ids, history_file, polled,
                   active_at_poll, prev_ids, failures, file_before_save, crashes>>

\* line 244 raises (the page is gone)
ContainerFails ==
    /\ pc = "process"
    /\ containers # <<>>
    /\ HandleError

(***************************************************************************)
(* run(): removed bets (lines 276-284).                                    *)
(***************************************************************************)
\* a removal pass that finds nothing
RemovedIdsNone(active, cycle_ids) == <<>>

RECURSIVE Reverse(_)
Reverse(s) == IF s = <<>> THEN <<>> ELSE Append(Reverse(Tail(s)), Head(s))

\* a removal pass that does not follow the insertion order
RemovedIdsReversed(active, cycle_ids) ==
    Reverse(Filter(active, Range(active) \ Range(cycle_ids)))

RemovedIds(active, cycle_ids) ==
    Filter(active, Range(active) \ Range(cycle_ids))

ComputeRemoved ==
    /\ pc = "process"
    /\ containers = <<>>
    /\ removed_ids' = RemovedIds(active_superquotes, current_cycle_ids)
    /\ pc' = "remove"
    /\ UNCHANGED <<telegram, attempt, backoff, now, containers, current_cycle_ids,
                   active_superquotes, history, history_file, sent, notified,
                   polled, active_at_poll, prev_ids, failures,
                   file_before_save, crashes>>

\* lines 280-283 read bet['match'], bet['odds_old'] and bet['odds_new']
Reportable(bet) ==
    /\ bet.match # KeyMissing
    /\ bet.odds_old # KeyMissing
    /\ bet.odds_new # KeyMissing

\* the bet is popped and flagged (lines 278-279), then line 280 or 283 raises
\* KeyError, which the except block of run() handles
RemoveBetFails ==
    /\ pc = "remove"
    /\ removed_ids # <<>>
    /\ LET bid == Head(removed_ids)
           bet == ActiveEntry(bid)
       IN  /\ ~Reportable(bet)
           /\ active_superquotes' = Without(active_superquotes, bid)
           /\ history' = DictSet(history, bid, MarkInactive(bet))
    /\ ErrorHandler
    /\ UNCHANGED <<telegram, now, history_file, sent, notified, polled,
                   active_at_poll, file_before_save, crashes>>

RemoveBet ==
    /\ pc = "remove"
    /\ removed_ids # <<>>
    /\ LET bid == Head(removed_ids)
           bet == ActiveEntry(bid)
       IN  /\ Reportable(bet)
           /\ active_superquotes' = Without(active_superquotes, bid)
           /\ history' = DictSet(history, bid, MarkInactive(bet))
           /\ sent' = Append(sent, SendTelegram(Removed(bid, bet)))
           /\ notified' = [notified EXCEPT ![bid] = "Removed"]
    /\ removed_ids' = Tail(removed_ids)
    /\ UNCHANGED <<telegram, pc, attempt, backoff, now, containers, current_cycle_ids,
                   history_file, polled, active_at_poll, prev_ids, failures,
                   file_before_save, crashes>>

(***************************************************************************)
(* _save_history (lines 108-114): open(..., 'w') truncates the file, then  *)
(* json.dump writes the document; an IOError of either is logged and the   *)
(* cycle goes on.  Then heartbeat and sleep (lines 288-297).               *)
(***************************************************************************)
CycleCompletes ==
    /\ pc' = "sleep"
    /\ failures' = 0
    /\ prev_ids' = [completed |-> TRUE, ids |-> CycleIdsOf(polled)]

SaveOpen ==
    /\ pc = "remove"
    /\ removed_ids = <<>>
    /\ file_before_save' = history_file
    /\ history_file' = Partial
    /\ pc' = "write"
    /\ UNCHANGED <<telegram, attempt, backoff, now, containers, current_cycle_ids,
                   removed_ids, active_superquotes, history, sent, notified,
                   polled, active_at_poll, prev_ids, failures, crashes>>

SaveOpenFails ==
    /\ pc = "remove"
    /\ removed_ids = <<>>
    /\ CycleCompletes
    /\ UNCHANGED <<telegram, attempt, backoff, now, containers, current_cycle_ids,
                   removed_ids, active_superquotes, history, history_file, sent,
                   notified, polled, active_at_poll, file_before_save, crashes>>

SaveWrite ==
    /\ pc = "write"
    /\ history_file' = Document(JsonDump(history))
    /\ file_before_save' = Absent
    /\ CycleCompletes
    /\ UNCHANGED <<telegram, attempt, backoff, now, containers, current_cycle_ids,
                   removed_ids, active_superquotes, history, sent, notified,
                   polled, active_at_poll, crashes>>

\* an IOError of json.dump that nothing catches before the handler of run()
SaveWriteFailsUncaught ==
    /\ pc = "write"
    /\ HandleError

SaveWriteFails ==
    /\ pc = "write"
    /\ file_before_save' = Absent
    /\ CycleCompletes
    /\ UNCHANGED <<telegram, attempt, backoff, now, containers, current_cycle_ids,
                   removed_ids, active_superquotes, history, history_file, sent,
                   notified, polled, active_at_poll, crashes>>

Sleep ==
    /\ pc = "sleep"
    /\ pc' = "navigate"
    /\ sent' = <<>>
    /\ polled' = <<>>
    /\ active_at_poll' = {}
    /\ UNCHANGED <<telegram, attempt, backoff, now, containers, current_cycle_ids,
                   removed_ids, active_superquotes, history, history_file,
                   notified, prev_ids, failures, file_before_save, crashes>>

(***************************************************************************)
(* The process stops at an arbitrary point (KeyboardInterrupt, kill, power *)
(* loss) and is started again: __init__ (lines 50-52) loads the file.      *)
(***************************************************************************)
Running == pc \notin {"crashed", "terminated", "startup_failed"}

Crash ==
    /\ Running
    /\ crashes < MaxCrashes
    /\ crashes' = crashes + 1
    /\ pc' = "crashed"
    /\ active_superquotes' = <<>>
    /\ history' = <<>>
    /\ attempt' = 0
    /\ backoff' = 0
    /\ containers' = <<>>
    /\ current_cycle_ids' = <<>>
    /\ removed_ids' = <<>>
    /\ sent' = <<>>
    /\ polled' = <<>>
    /\ active_at_poll' = {}
    /\ prev_ids' = NoCycle
    /\ failures' = 0
    /\ UNCHANGED <<telegram, now, history_file, notified, file_before_save>>

\* _load_history raises out of __init__: line 317 logs it and the process ends
StartupFails ==
    /\ ~Running
    /\ LoadRaises(history_file)
    /\ pc' = "startup_failed"
    /\ UNCHANGED <<telegram, attempt, backoff, now, containers, current_cycle_ids,
                   removed_ids, active_superquotes, history, history_file, sent,
                   notified, polled, active_at_poll, prev_ids, failures,
                   file_before_save, crashes>>

Restart ==
    /\ ~Running
    /\ ~LoadRaises(history_file)
    /\ active_superquotes' = LoadActive(history_file)
    /\ history' = LoadHistory(history_file)
    /\ pc' = "setup"
    /\ attempt' = 0
    /\ backoff' = 0
    /\ containers' = <<>>
    /\ current_cycle_ids' = <<>>
    /\ removed_ids' = <<>>
    /\ sent' = <<>>
    /\ polled' = <<>>
    /\ active_at_poll' = {}
    /\ prev_ids' = NoCycle
    /\ failures' = 0
    /\ UNCHANGED <<telegram, now, history_file, notified, file_before_save, crashes>>

NextRun ==
    \/ SetupBrowser
    \/ SetupBrowserFails
    \/ Navigate
    \/ NavigateFails
    \/ ProcessContainer
    \/ ContainerFails
    \/ ComputeRemoved
    \/ RemoveBet
    \/ SaveOpen
    \/ SaveOpenFails
    \/ SaveWrite
    \/ SaveWriteFails
    \/ Sleep
    \/ Retry
    \/ Terminate

Next ==
    \/ NextRun
    \/ Crash
    \/ Restart

\* the process, stopped and started again at arbitrary points
Spec == Init /\ [][Next]_vars

\* one life of the process
SpecRun == Init /\ [][NextRun]_vars

(***************************************************************************)
(* Vocabulary of the properties.                                           *)
(***************************************************************************)
IdA == "A|Winner|Boost"
IdB == "B|Winner|Boost"
IdC == "C|N/A|Boost"

\* this step passes one notification of the given kind and id to _send_telegram
Dispatched(kind, id) ==
    /\ Len(sent') = Len(sent) + 1
    /\ sent'[Len(sent')].kind = kind
    /\ sent'[Len(sent')].id = id

\* ids of the notifications of one kind sent in this cycle
SentIds(kind) == { sent[i].id : i \in { j \in DOMAIN sent : sent[j].kind = kind } }

\* the diff of this cycle is done: nothing left to add or to remove
ReconcileDone ==
    \/ pc = "remove" /\ removed_ids = <<>>
    \/ pc = "write"

HasActiveRecord(id) == id \in Keys(history) /\ DictGet(history, id).active

\* C1: every absent->present / present->absent transition of a fingerprint in
\* the polled source is notified exactly once, over cycles, restarts and
\* acquisition failures: no Added is sent to recipients whose last notification
\* for the fingerprint is Added, no Removed unless their last one is Added, and
\* when a cycle completes the last notification of a fingerprint is Added
\* exactly if the poll of the cycle held it.
C1_ExactlyOncePerTransition ==
    /\ [](pc = "sleep" =>
            \A id \in Ids : (notified[id] = "Added") <=> (id \in CycleIdsOf(polled)))
    /\ [][\A id \in Ids :
            /\ Dispatched("Added", id) => notified[id] # "Added"
            /\ Dispatched("Removed", id) => notified[id] = "Added"]_vars

\* C2: the supervisor has terminated exactly when 5 acquisition failures have
\* occurred with no completed cycle in between (the fifth backoff sleep still
\* precedes the exit), whether browser setup or the poll failed.
C2_TerminatesAtThreshold ==
    /\ pc = "terminated" => failures = Threshold
    /\ (failures >= Threshold /\ pc # "backoff") => pc = "terminated"

\* C3: after the k-th acquisition failure since the last completed cycle the
\* supervisor sleeps 30*k, and the counter is 0 after a completed cycle.
C3_LinearBackoff ==
    /\ pc = "backoff" => backoff = BackoffBase * failures
    /\ pc = "sleep" => attempt = 0

\* C4: a crash during _save_history leaves the history file either the
\* complete previous document or the complete new one.
C4_AtomicPersist ==
    [][(pc = "write" /\ pc' = "crashed") =>
          history_file' \in {file_before_save, Document(JsonDump(history))}]_vars

\* C5: when the reconcile of a poll with valid fingerprints S against the
\* active set A is done, Added was sent exactly for S \ A, Removed exactly for
\* A \ S, each once, nothing for the others, and the active set is S.
C5_DiffCorrect ==
    ReconcileDone =>
        LET S == CycleIdsOf(polled)
            A == active_at_poll
        IN  /\ SentIds("Added") = S \ A
            /\ SentIds("Removed") = A \ S
            /\ Len(sent) = Cardinality((S \ A) \cup (A \ S))
            /\ Range(active_superquotes) = S
            /\ Len(active_superquotes) = Cardinality(S)

\* active set {A,B}, poll {B,C}: Added(C), Removed(A), active set {B,C}
C5_Witness ==
    /\ ReconcileDone
    /\ active_at_poll = {IdA, IdB}
    /\ CycleIdsOf(polled) = {IdB, IdC}
    /\ Len(sent) = 2
    /\ sent[1].kind = "Added" /\ sent[1].id = IdC
    /\ sent[2].kind = "Removed" /\ sent[2].id = IdA

\* C6: a cycle that directly follows a completed cycle and polls the same
\* fingerprints sends no Added and no Removed notification.
C6_Idempotent ==
    (ReconcileDone /\ prev_ids.completed /\ CycleIdsOf(polled) = prev_ids.ids)
        => sent = <<>>

C6_Witness ==
    /\ ReconcileDone
    /\ prev_ids.completed
    /\ CycleIdsOf(polled) = prev_ids.ids
    /\ Cardinality(prev_ids.ids) = 2
    /\ polled # <<>>

\* C7: within one life of the process, Added is sent for a fingerprint only
\* in a step that moves it from absent to present in the active set, Removed
\* only in a step that moves it from present to absent, and the two alternate.
C7_Alternation ==
    [][\A id \in Ids :
          /\ Dispatched("Added", id) =>
                /\ id \notin Range(active_superquotes)
                /\ id \in Range(active_superquotes')
                /\ notified[id] # "Added"
          /\ Dispatched("Removed", id) =>
                /\ id \in Range(active_superquotes)
                /\ id \notin Range(active_superquotes')
                /\ notified[id] = "Added"
          /\ (id \in Range(active_superquotes') /\ id \notin Range(active_superquotes))
                => Dispatched("Added", id)
          /\ (id \in Range(active_superquotes) /\ id \notin Range(active_superquotes'))
                => Dispatched("Removed", id)]_vars

\* a fingerprint was added in one cycle and removed in the next
C7_Witness ==
    /\ pc = "remove"
    /\ now = 2
    /\ notified[IdA] = "Removed"
    /\ IdA \notin Range(active_superquotes)
    /\ \E i \in DOMAIN sent : sent[i].kind = "Removed" /\ sent[i].id = IdA

\* C8: a fingerprint is a key of the active set if and only if the history
\* holds a record for it whose active flag is true.
C8_ActiveIffFlag ==
    \A id \in Ids : (id \in Range(active_superquotes)) <=> HasActiveRecord(id)

\* after a startup load that found both an active and an inactive record
C8_Witness ==
    /\ pc = "setup"
    /\ crashes = 1
    /\ Range(active_superquotes) = {IdB}
    /\ IdA \in Keys(history)
    /\ ~DictGet(history, IdA).active

\* C9: processing a polled item that agrees with the record of an active
\* fingerprint on (match, market, details) and differs in its odds sends no
\* notification and leaves the keys of the active set unchanged.
C9_OddsNotIdentity ==
    [][(/\ pc = "process" /\ pc' = "process"
        /\ containers # <<>> /\ containers' = Tail(containers)
        /\ ~Skipped(Head(containers))
        /\ \E id \in Range(active_superquotes) :
              /\ ActiveEntry(id).match = Head(containers).match
              /\ ActiveEntry(id).market = Head(containers).market
              /\ ActiveEntry(id).details = Head(containers).details
              /\ \/ ActiveEntry(id).odds_new # Head(containers).odds_new
                 \/ ActiveEntry(id).odds_old # Head(containers).odds_old)
       => /\ sent' = sent
          /\ active_superquotes' = active_superquotes]_vars

\* the cycle has processed an item whose odds differ from those of the record
\* of its (already active) fingerprint
C9_Witness ==
    /\ pc = "process"
    /\ sent = <<>>
    /\ \E i \in 1..(Len(polled) - Len(containers)) :
          /\ ~Skipped(polled[i])
          /\ GenerateId(polled[i]) \in active_at_poll
          /\ DictGet(history, GenerateId(polled[i])).odds_new # polled[i].odds_new
          /\ DictGet(history, GenerateId(polled[i])).timestamp = now

\* C10: what _load_history reconstructs from the file a successful
\* _save_history has just written has the fingerprints of the in-memory
\* active set, and the fingerprints and active flags of the in-memory history.
C10_RoundTrip ==
    [][(pc = "write" /\ pc' = "sleep" /\ history_file'.kind = "document") =>
          /\ Range(LoadActive(history_file')) = Range(active_superquotes)
          /\ Keys(LoadHistory(history_file')) = Keys(history)
          /\ \A id \in Keys(history) :
                DictGet(LoadHistory(history_file'), id).active
                    = DictGet(history, id).active]_vars

\* the process was started again from a saved file holding an active and an
\* inactive record, and has loaded exactly what was saved
C10_Witness ==
    /\ pc = "setup"
    /\ crashes = 1
    /\ history_file.kind = "document"
    /\ history_file = Document(JsonDump(history))
    /\ \E id \in Keys(history) : DictGet(history, id).active
    /\ \E id \in Keys(history) : ~DictGet(history, id).active
    /\ Range(active_superquotes) = { id \in Keys(history) : DictGet(history, id).active }

(***************************************************************************)
(* Telegram in any condition, every other collaborator healthy: the        *)
(* browser starts, the page loads, the history file can be written.        *)
(***************************************************************************)
InitNotify ==
    /\ pc = "setup"
    /\ attempt = 0
    /\ backoff = 0
    /\ now = 0
    /\ containers = <<>>
    /\ current_cycle_ids = <<>>
    /\ removed_ids = <<>>
    /\ active_superquotes = <<>>
    /\ history = <<>>
    /\ history_file = Absent
    /\ sent = <<>>
    /\ notified = [id \in Ids |-> "none"]
    /\ polled = <<>>
    /\ active_at_poll = {}
    /\ prev_ids = NoCycle
    /\ failures = 0
    /\ file_before_save = Absent
    /\ crashes = 0
    /\ telegram \in [Range(TelegramChatIds) -> PostOutcomes]

NextNotify ==
    \/ SetupBrowser
    \/ Navigate
    \/ ProcessContainer
    \/ ComputeRemoved
    \/ RemoveBet
    \/ SaveOpen
    \/ SaveWrite
    \/ Sleep

SpecNotify == InitNotify /\ [][NextNotify]_vars

\* C12: whatever subset of the chats fails (status other than 200, or an
\* exception), every notification is posted exactly once to every configured
\* chat, in order; the cycle is not aborted and no acquisition failure is
\* counted; and the diff ends as with a healthy Telegram: the active set is
\* the polled set and agrees with the flags of the history.
C12_DispatchIsolation ==
    /\ \A i \in DOMAIN sent :
          /\ Len(sent[i].posts) = Len(TelegramChatIds)
          /\ \A j \in DOMAIN TelegramChatIds :
                sent[i].posts[j].chat_id = TelegramChatIds[j]
    /\ pc \notin {"backoff", "terminated"}
    /\ attempt = 0
    /\ failures = 0
    /\ ReconcileDone =>
          /\ Range(active_superquotes) = CycleIdsOf(polled)
          /\ \A id \in Ids : (id \in Range(active_superquotes)) <=> HasActiveRecord(id)
          /\ (active_at_poll \cup CycleIdsOf(polled)) \subseteq Keys(history)

\* the post to the first chat raised, the post to the second chat was made,
\* for an Added and for a Removed notification, and the diff is done
C12_Witness ==
    /\ ReconcileDone
    /\ telegram["chat1"] = "exception"
    /\ telegram["chat2"] = "200"
    /\ \E i \in DOMAIN sent : sent[i].kind = "Added" /\ sent[i].posts[2].outcome = "200"
    /\ \E i \in DOMAIN sent : sent[i].kind = "Removed" /\ sent[i].posts[2].outcome = "200"

(***************************************************************************)
(* Vocabulary of the properties about one cycle.                           *)
(***************************************************************************)
\* the cycle is between its poll and its sleep
InCycle == pc \in {"process", "remove", "write", "sleep"}

\* the containers of this poll that the loop has gone through
Processed == SubSeq(polled, 1, Len(polled) - Len(containers))

\* this step is one iteration of the loop over the containers, for a
\* container that passes the filter
ProcessesItem ==
    /\ pc = "process" /\ pc' = "process"
    /\ containers # <<>> /\ containers' = Tail(containers)
    /\ ~Skipped(Head(containers))

SentKinds == [i \in DOMAIN sent |-> sent[i].kind]

RECURSIVE SentIdSeq(_, _)
SentIdSeq(msgs, kind) ==
    IF msgs = <<>> THEN <<>>
    ELSE (IF Head(msgs).kind = kind THEN <<Head(msgs).id>> ELSE <<>>)
         \o SentIdSeq(Tail(msgs), kind)

\* the fingerprints that items of cs are the first to bring, in the order of cs
RECURSIVE FirstSightings(_, _)
FirstSightings(cs, known) ==
    IF cs = <<>> THEN <<>>
    ELSE IF Skipped(Head(cs)) \/ GenerateId(Head(cs)) \in known
         THEN FirstSightings(Tail(cs), known)
         ELSE <<GenerateId(Head(cs))>>
              \o FirstSightings(Tail(cs), known \cup {GenerateId(Head(cs))})

\* C13: a cycle that ends in the failure path has dispatched no notification
\* and, when its poll had returned, has left the active set as it was at the
\* poll and has written no record of the history.
C13_FailedCycleDoesNothing ==
    pc = "backoff" =>
        /\ sent = <<>>
        /\ polled # <<>> =>
              /\ Range(active_superquotes) = active_at_poll
              /\ \A i \in DOMAIN history : history[i].v.timestamp # now

\* C14: an item whose match or market is "N/A" is never fingerprinted: its id
\* is not in the ids of the cycle, and no record of the history (hence no
\* active entry and no Added notification) is one of such an item.
C14_UnresolvedExcluded ==
    /\ \A id \in Range(current_cycle_ids) :
          \A c \in Candidates :
             GenerateId(c) = id => (c.match # NA /\ c.market # NA)
    /\ \A i \in DOMAIN history :
          history[i].v.match # NA /\ history[i].v.market # NA
    /\ \A i \in DOMAIN sent :
          sent[i].kind = "Added" => sent[i].match # NA

\* C14 as amended: an item whose match is "N/A" is never fingerprinted, never
\* enters the ids of the cycle, the active set or the history, and produces
\* no Added notification (an unresolved market does not exclude an item).
C14_UnresolvedMatchExcluded ==
    /\ \A c \in Candidates :
          c.match = NA =>
             GenerateId(c) \notin (Range(current_cycle_ids)
                                     \cup Range(active_superquotes)
                                     \cup Keys(history))
    /\ \A i \in DOMAIN history : history[i].v.match # NA
    /\ \A i \in DOMAIN sent : sent[i].match # NA

\* the loop has gone through a boost container without match and through a
\* resolved one, which is the only one it has recorded
C14_Witness ==
    /\ ReconcileDone
    /\ Len(polled) = 2
    /\ polled[1].boost /\ polled[1].match = NA
    /\ ~Skipped(polled[2])
    /\ Len(current_cycle_ids) = 1
    /\ Len(history) = 1

\* C15: the process stops only at a cycle boundary: it never stops while a
\* notification of the current cycle has been dispatched and the cycle has
\* not reached the sleep that follows _save_history.
C15_StopAtBoundary ==
    [][pc' = "crashed" => (sent = <<>> \/ pc = "sleep")]_vars

\* C16: a failed write of the history file (open or json.dump raising
\* IOError) leads to the heartbeat and sleep with the active set, the history
\* and the retry counter untouched and no failure counted; and every write
\* that succeeds stores the whole current history.
C16_SaveFailureAbsorbed ==
    [][/\ (\/ pc = "remove" /\ removed_ids = <<>> /\ pc' # "write"
           \/ pc = "write" /\ history_file' = Partial)
          => /\ pc' = "sleep"
             /\ active_superquotes' = active_superquotes
             /\ history' = history
             /\ attempt' = attempt
             /\ attempt' = 0
             /\ failures' = 0
       /\ (pc = "write" /\ history_file'.kind = "document")
          => history_file' = Document(JsonDump(history))]_vars

\* the second cycle is writing the file that the failed write of the first
\* cycle had left partly written
C16_Witness ==
    /\ pc = "write"
    /\ now = 2
    /\ file_before_save = Partial
    /\ Len(history) = 2
    /\ failures = 0

\* C17: when a polled item's fingerprint has a history record, the record
\* takes the polled odds, its active flag is true and its timestamp is the
\* time of the observation.
C17_RecordOverwritten ==
    [][(ProcessesItem /\ GenerateId(Head(containers)) \in Keys(history)) =>
          LET r == DictGet(history', GenerateId(Head(containers)))
          IN  /\ r.odds_old = Head(containers).odds_old
              /\ r.odds_new = Head(containers).odds_new
              /\ r.active = TRUE
              /\ r.timestamp = now]_vars

\* C17 as amended: for a fingerprint in the active set the record keeps its
\* odds, its active flag is true and its timestamp is the time of the
\* observation; for a fingerprint with an inactive record the record takes
\* the polled odds; and a Removed notification reports the odds of the record.
C17_RecordTouched ==
    [][/\ (ProcessesItem /\ GenerateId(Head(containers)) \in Keys(history)) =>
            LET id == GenerateId(Head(containers))
                r == DictGet(history', id)
            IN  /\ r.active = TRUE
                /\ r.timestamp = now
                /\ IF id \in Range(active_superquotes)
                   THEN /\ r.odds_old = DictGet(history, id).odds_old
                        /\ r.odds_new = DictGet(history, id).odds_new
                   ELSE /\ r.odds_old = Head(containers).odds_old
                        /\ r.odds_new = Head(containers).odds_new
       /\ \A id \in Ids :
            Dispatched("Removed", id) =>
                /\ sent'[Len(sent')].odds_old = DictGet(history, id).odds_old
                /\ sent'[Len(sent')].odds_new = DictGet(history, id).odds_new]_vars

\* the second cycle has polled A at 2,00 while A was active with a record at
\* 1,80: the record is of this cycle and still says 1,80
C17_Witness ==
    /\ InCycle
    /\ now = 2
    /\ IdA \in active_at_poll
    /\ \E i \in DOMAIN Processed : Processed[i].boost /\ Processed[i].match = "A"
                                     /\ Processed[i].odds_new = "2,00"
    /\ DictGet(history, IdA).timestamp = 2
    /\ DictGet(history, IdA).odds_new = "1,80"

\* C19: within a cycle no Added notification follows a Removed one, the Added
\* notifications follow the order of the polled items, and each Removed
\* notification is for the earliest inserted key of the active set that the
\* cycle has not seen.
C19_EventOrder ==
    /\ [](InCycle =>
            /\ \A i, j \in DOMAIN sent :
                  (i < j /\ sent[i].kind = "Removed") => sent[j].kind = "Removed"
            /\ SentIdSeq(sent, "Added") = FirstSightings(Processed, active_at_poll))
    /\ [][\A id \in Ids :
            Dispatched("Removed", id) =>
               \E i \in DOMAIN active_superquotes :
                  /\ active_superquotes[i] = id
                  /\ \A j \in 1..(i - 1) :
                        active_superquotes[j] \in Range(current_cycle_ids)]_vars

\* active set A then B, poll C: Added(C), Removed(A), Removed(B)
C19_Witness ==
    /\ ReconcileDone
    /\ SentKinds = <<"Added", "Removed", "Removed">>
    /\ sent[1].id = IdC /\ sent[2].id = IdA /\ sent[3].id = IdB

\* C20: when the poll of a cycle holds several items of one fingerprint, the
\* cycle sends at most one Added and no Removed notification for it, and the
\* active set holds it at most once (exactly once when the diff is done).
C20_DuplicatesInPoll ==
    \A id \in Ids :
       (InCycle /\ Cardinality({ i \in DOMAIN polled :
                                   ~Skipped(polled[i]) /\ GenerateId(polled[i]) = id }) >= 2)
       => /\ Cardinality({ i \in DOMAIN sent : sent[i].id = id /\ sent[i].kind = "Added" }) <= 1
          /\ \A i \in DOMAIN sent : sent[i].id = id => sent[i].kind # "Removed"
          /\ Cardinality({ i \in DOMAIN active_superquotes : active_superquotes[i] = id }) <= 1
          /\ ReconcileDone =>
                Cardinality({ i \in DOMAIN active_superquotes : active_superquotes[i] = id }) = 1

\* the poll held A twice, with different odds, and A was new
C20_Witness ==
    /\ ReconcileDone
    /\ Len(polled) = 2
    /\ GenerateId(polled[1]) = IdA /\ GenerateId(polled[2]) = IdA
    /\ polled[1].odds_new # polled[2].odds_new
    /\ IdA \notin active_at_poll
    /\ SentKinds = <<"Added">>
    /\ active_superquotes = <<IdA>>

(***************************************************************************)
(* The process is started on a history file that it did not necessarily    *)
(* write itself; the browser, the page and the file system are healthy.    *)
(***************************************************************************)
\* a record marked active that has no match and no odds
SparseDocument ==
    <<[k |-> IdA,
       v |-> [sport |-> JsonAbsent, details |-> JsonString("Boost"),
              match |-> JsonAbsent, market |-> JsonString("Winner"),
              odds_old |-> JsonAbsent, odds_new |-> JsonAbsent,
              timestamp |-> JsonString(0), active |-> JsonBool(TRUE)]]>>

\* a document as the program writes it
SavedDocument ==
    JsonDump(<<[k |-> IdB,
                v |-> [sport |-> "Soccer", details |-> "Boost", match |-> "B",
                       market |-> "Winner", odds_old |-> "2,10",
                       odds_new |-> "2,50", timestamp |-> 0, active |-> TRUE]]>>)

StartupFiles ==
    { Absent, Partial, OtherJson, NotText,
      Document(SparseDocument), Document(SavedDocument) }

InitStartup ==
    /\ pc = "crashed"
    /\ attempt = 0
    /\ backoff = 0
    /\ now = 0
    /\ containers = <<>>
    /\ current_cycle_ids = <<>>
    /\ removed_ids = <<>>
    /\ active_superquotes = <<>>
    /\ history = <<>>
    /\ history_file \in StartupFiles
    /\ sent = <<>>
    /\ notified = [id \in Ids |-> "none"]
    /\ polled = <<>>
    /\ active_at_poll = {}
    /\ prev_ids = NoCycle
    /\ failures = 0
    /\ file_before_save = Absent
    /\ crashes = 0
    /\ telegram = Delivering

NextStartup ==
    \/ Restart
    \/ StartupFails
    \/ SetupBrowser
    \/ Navigate
    \/ ProcessContainer
    \/ ComputeRemoved
    \/ RemoveBet
    \/ RemoveBetFails
    \/ SaveOpen
    \/ SaveWrite
    \/ Sleep
    \/ Retry

SpecStartup == InitStartup /\ [][NextStartup]_vars

\* C11: starting the process on a history file that is no valid persisted
\* document (text that does not decode, or JSON that is no mapping from
\* fingerprint to record) never fails: the process is constructed with an
\* empty history and an empty active set.
C11_LoadNeverCrashes ==
    [][(~Running /\ history_file.kind \notin {"absent", "document"}) =>
          /\ pc' = "setup"
          /\ history' = <<>>
          /\ active_superquotes' = <<>>]_vars

\* C18: a loaded record that lacks match or odds and is marked active is
\* tolerated: when its fingerprint is to be removed, the step dispatches the
\* Removed notification (with a sentinel for the missing field), flags the
\* record inactive and stays in the cycle, and no failure is counted.
C18_MissingFieldsTolerated ==
    [][(pc = "remove" /\ removed_ids # <<>>) =>
          /\ Dispatched("Removed", Head(removed_ids))
          /\ sent'[Len(sent')].match # KeyMissing
          /\ ~DictGet(history', Head(removed_ids)).active
          /\ pc' = "remove"
          /\ failures' = failures
          /\ attempt' = attempt]_vars

====
